---- MODULE Spec2Model ----
(***************************************************************************)
(* Account REST service (service/routes.py).                               *)
(*                                                                         *)
(* The route handlers are translated from service/routes.py.  The Account  *)
(* model (service/models.py), the application set-up with its response     *)
(* policies (service/__init__.py) and the error handlers are modelled from *)
(* the service's written specification.                                    *)
(*                                                                         *)
(* Two specifications:                                                     *)
(*   Spec      one request at a time, each handler run to completion;      *)
(*   SpecConc  two clients whose handlers interleave at store accesses.    *)
(***************************************************************************)
EXTENDS Integers, Sequences, FiniteSets, TLC

\* ------------------------------------------------------------------ bounds

\* The store assigns ids out of 1..MaxId.
MaxId == 2

\* Successful creations in one behaviour.
MaxCreates == 2

\* ------------------------------------------------------------- HTTP status

HTTP_200_OK == 200
HTTP_201_CREATED == 201
HTTP_204_NO_CONTENT == 204
HTTP_400_BAD_REQUEST == 400
HTTP_404_NOT_FOUND == 404
HTTP_415_UNSUPPORTED_MEDIA_TYPE == 415
HTTP_500_INTERNAL_SERVER_ERROR == 500

\* ------------------------------------------------------------ JSON values

\* A JSON value of a request or response body.  "absent" encodes a key the
\* object does not have.
JStr(v) == [kind |-> "string", s |-> v, n |-> 0]
JNum(v) == [kind |-> "number", s |-> "", n |-> v]
JNull == [kind |-> "null", s |-> "", n |-> 0]
JAbsent == [kind |-> "absent", s |-> "", n |-> 0]

\* The fields of the Account wire representation.
FieldNames == {"id", "name", "email", "phone_number"}

\* Fields a body must carry, as strings.
RequiredFields == {"name", "email"}

Present(data, f) == data[f].kind # "absent"

LacksRequired(data) == \E f \in RequiredFields : ~ Present(data, f)

\* ------------------------------------------------------------ the Account

\* Python's None for a string attribute, and for the primary key of an
\* instance that was never persisted.
NoneVal == "<None>"
NoId == 0

Ids == 1..MaxId

\* Account(): a fresh instance, nothing set.
NewAccount == [id |-> NoId, name |-> NoneVal, email |-> NoneVal, phone_number |-> NoneVal]

\* Account.serialize(): the instance as a JSON object.
serialize(account) ==
    [id           |-> IF account.id = NoId THEN JNull ELSE JNum(account.id),
     name         |-> IF account.name = NoneVal THEN JNull ELSE JStr(account.name),
     email        |-> IF account.email = NoneVal THEN JNull ELSE JStr(account.email),
     phone_number |-> IF account.phone_number = NoneVal THEN JNull
                      ELSE JStr(account.phone_number)]

\* A body optional field left out: the instance's value is kept or reset to
\* its default; which one is left open.
OptionalAbsent(current) == {current, NoneVal}

\* Account.deserialize(data): assigns the body's fields to the instance in
\* order, and stops at the first required field that is missing or not a
\* string, leaving the instance with the assignments made so far.  The id is
\* never taken from the body.  The result is the set of possible outcomes.
deserialize(account, data) ==
    IF data["name"].kind # "string"
    THEN {[ok |-> FALSE, account |-> account]}
    ELSE LET a1 == [account EXCEPT !.name = data["name"].s] IN
         IF data["email"].kind # "string"
         THEN {[ok |-> FALSE, account |-> a1]}
         ELSE LET a2 == [a1 EXCEPT !.email = data["email"].s] IN
              CASE data["phone_number"].kind = "string" ->
                       {[ok |-> TRUE,
                         account |-> [a2 EXCEPT !.phone_number = data["phone_number"].s]]}
                [] data["phone_number"].kind = "null" ->
                       {[ok |-> TRUE, account |-> [a2 EXCEPT !.phone_number = NoneVal]]}
                [] data["phone_number"].kind = "absent" ->
                       {[ok |-> TRUE, account |-> [a2 EXCEPT !.phone_number = p]] :
                            p \in OptionalAbsent(a2.phone_number)}
                [] OTHER -> {[ok |-> FALSE, account |-> a2]}

\* ---------------------------------------------------- the store and session

\* The table is a set of rows; a session holds the instances a request has
\* changed in memory and not yet written.

\* Account.find(by_id): the instance of the session if it holds one, else the
\* row of the table; the empty set stands for None.
find(d, s, by_id) ==
    IF \E x \in s : x.id = by_id
    THEN {x \in s : x.id = by_id}
    ELSE {r \in d : r.id = by_id}

\* The session with `account` as its (changed) instance of that id.
Dirty(s, account) == {x \in s : x.id # account.id} \cup {account}

\* db.session.commit(): the changed instances replace their rows.
commit(d, s) ==
    {r \in d : ~ \E x \in s : x.id = r.id} \cup {x \in s : \E r \in d : r.id = x.id}

\* The ids the store may give a new row: any id no row has.
FreeIds(d) == {i \in Ids : ~ \E r \in d : r.id = i}

\* Account.create(): the instance is added under a store-assigned id and the
\* session is committed.
create(d, s, account, newId) == commit(d, s) \cup {[account EXCEPT !.id = newId]}

\* Account.update(): the session is committed.
update(d, s) == commit(d, s)

\* Account.delete(): the row is removed and the session is committed.
delete(d, s, account) == {r \in commit(d, s) : r.id # account.id}

\* Account.all(): every row, as the session sees it.
all(d, s) == {r \in d : ~ \E x \in s : x.id = r.id} \cup {x \in s : \E r \in d : r.id = x.id}

\* The session is scoped to the request: it is discarded when the request ends.
teardown(s) == {}

\* The rows in some order (the order is the store's; by id here).
RECURSIVE RowSeq(_)
RowSeq(rows) ==
    IF rows = {} THEN <<>>
    ELSE LET r == CHOOSE x \in rows : \A y \in rows : x.id <= y.id
         IN  <<r>> \o RowSeq(rows \ {r})

\* ---------------------------------------------------------------- responses

SecurityHeaders ==
    {<<"X-Frame-Options", "SAMEORIGIN">>,
     <<"X-Content-Type-Options", "nosniff">>,
     <<"Content-Security-Policy", "default-src 'self'; object-src 'none'">>,
     <<"Referrer-Policy", "strict-origin-when-cross-origin">>}

CorsHeaders == {<<"Access-Control-Allow-Origin", "*">>}

\* A response: status, kind of body, the serialized accounts of the body, the
\* id the Location header names (NoId: no such header), and the headers.
Response(status, kind, items, location) ==
    [status |-> status, kind |-> kind, items |-> items, location |-> location,
     headers |-> {}]

NoResponse == Response(0, "none", <<>>, NoId)

\* abort(status, message): the error handlers answer with a JSON error.
abort(status) == Response(status, "error", <<>>, NoId)

\* The response policies applied to successful responses only.
after_request_SuccessOnly(r) ==
    IF r.status >= 400 THEN r
    ELSE [r EXCEPT !.headers = @ \cup SecurityHeaders \cup CorsHeaders]

\* The process-wide response policies, applied to every response.
after_request(r) == [r EXCEPT !.headers = @ \cup SecurityHeaders \cup CorsHeaders]

\* ------------------------------------------------------------------ handlers

\* Each handler maps the table, the session and the request to the set of its
\* possible outcomes: the table and session it leaves, its response, and the
\* calls it made on the request body and the store, in order.
Outcome(d, s, r, c) == [db |-> d, session |-> s, resp |-> r, calls |-> c]

\* check_content_type comparing only the media type's prefix.
check_content_type_Prefix(ctype) ==
    ctype \in {"application/json", "application/json; charset=utf-8"}

\* check_content_type(media_type): whether the request passes.
check_content_type(ctype) == ctype = "application/json"

health(d, s) == {Outcome(d, s, Response(HTTP_200_OK, "health", <<>>, NoId), <<>>)}

index(d, s) == {Outcome(d, s, Response(HTTP_200_OK, "index", <<>>, NoId), <<>>)}

\* create_account without the call of deserialize.
create_account_NoDeserialize(d, s, ctype, data) ==
    IF ~ check_content_type(ctype)
    THEN {Outcome(d, s, abort(HTTP_415_UNSUPPORTED_MEDIA_TYPE), <<>>)}
    ELSE {Outcome(create(d, s, NewAccount, newId), {},
                  Response(HTTP_201_CREATED, "account",
                           <<serialize([NewAccount EXCEPT !.id = newId])>>, newId),
                  <<"get_json", "create">>) :
              newId \in FreeIds(d)}

\* create_account building the Location before create() has assigned the id.
create_account_LocationBeforeCreate(d, s, ctype, data) ==
    IF ~ check_content_type(ctype)
    THEN {Outcome(d, s, abort(HTTP_415_UNSUPPORTED_MEDIA_TYPE), <<>>)}
    ELSE UNION {
           IF ~ r.ok
           THEN {Outcome(d, s, abort(HTTP_400_BAD_REQUEST), <<"get_json", "deserialize">>)}
           ELSE {Outcome(create(d, s, r.account, newId), {},
                         Response(HTTP_201_CREATED, "account",
                                  <<serialize([r.account EXCEPT !.id = newId])>>, r.account.id),
                         <<"get_json", "deserialize", "create">>) :
                     newId \in FreeIds(d)} :
           r \in deserialize(NewAccount, data)}

create_account(d, s, ctype, data) ==
    IF ~ check_content_type(ctype)
    THEN {Outcome(d, s, abort(HTTP_415_UNSUPPORTED_MEDIA_TYPE), <<>>)}
    ELSE UNION {
           IF ~ r.ok
           THEN {Outcome(d, s, abort(HTTP_400_BAD_REQUEST), <<"get_json", "deserialize">>)}
           ELSE {Outcome(create(d, s, r.account, newId), {},
                         Response(HTTP_201_CREATED, "account",
                                  <<serialize([r.account EXCEPT !.id = newId])>>, newId),
                         <<"get_json", "deserialize", "create">>) :
                     newId \in FreeIds(d)} :
           r \in deserialize(NewAccount, data)}

list_accounts(d, s) ==
    LET accounts == RowSeq(all(d, s))
        results == [i \in 1..Len(accounts) |-> serialize(accounts[i])]
    IN  {Outcome(d, s, Response(HTTP_200_OK, "list", results, NoId), <<"all">>)}

get_account(d, s, account_id) ==
    IF find(d, s, account_id) = {}
    THEN {Outcome(d, s, abort(HTTP_404_NOT_FOUND), <<"find">>)}
    ELSE {Outcome(d, s, Response(HTTP_200_OK, "account", <<serialize(account)>>, NoId),
                  <<"find">>) :
              account \in find(d, s, account_id)}

\* update_account creating the account when the id is not found.
update_account_Upsert(d, s, account_id, ctype, data) ==
    IF ~ check_content_type(ctype)
    THEN {Outcome(d, s, abort(HTTP_415_UNSUPPORTED_MEDIA_TYPE), <<>>)}
    ELSE UNION {
           {IF ~ r.ok
            THEN Outcome(d, s, abort(HTTP_400_BAD_REQUEST),
                         <<"find", "get_json", "deserialize">>)
            ELSE Outcome({x \in d : x.id # account_id}
                             \cup {[r.account EXCEPT !.id = account_id]}, {},
                         Response(HTTP_200_OK, "account",
                                  <<serialize([r.account EXCEPT !.id = account_id])>>, NoId),
                         <<"find", "get_json", "deserialize", "update">>) :
                r \in deserialize(account, data)} :
           account \in IF find(d, s, account_id) = {} THEN {NewAccount}
                       ELSE find(d, s, account_id)}

\* update_account validating the body before it looks the account up.
update_account_DeserializeFirst(d, s, account_id, ctype, data) ==
    IF ~ check_content_type(ctype)
    THEN {Outcome(d, s, abort(HTTP_415_UNSUPPORTED_MEDIA_TYPE), <<>>)}
    ELSE IF \A r \in deserialize(NewAccount, data) : ~ r.ok
    THEN {Outcome(d, s, abort(HTTP_400_BAD_REQUEST), <<"get_json", "deserialize">>)}
    ELSE IF find(d, s, account_id) = {}
    THEN {Outcome(d, s, abort(HTTP_404_NOT_FOUND), <<"get_json", "deserialize", "find">>)}
    ELSE UNION {
           {Outcome(update(d, Dirty(s, r.account)), {},
                    Response(HTTP_200_OK, "account", <<serialize(r.account)>>, NoId),
                    <<"get_json", "deserialize", "find", "update">>) :
                r \in deserialize(account, data)} :
           account \in find(d, s, account_id)}

\* update_account calling update() although deserialize has failed.
update_account_WritesOnFailure(d, s, account_id, ctype, data) ==
    IF ~ check_content_type(ctype)
    THEN {Outcome(d, s, abort(HTTP_415_UNSUPPORTED_MEDIA_TYPE), <<>>)}
    ELSE IF find(d, s, account_id) = {}
    THEN {Outcome(d, s, abort(HTTP_404_NOT_FOUND), <<"find">>)}
    ELSE UNION {
           {Outcome(update(d, Dirty(s, r.account)), {},
                    IF r.ok
                    THEN Response(HTTP_200_OK, "account", <<serialize(r.account)>>, NoId)
                    ELSE abort(HTTP_400_BAD_REQUEST),
                    <<"find", "get_json", "deserialize", "update">>) :
                r \in deserialize(account, data)} :
           account \in find(d, s, account_id)}

\* update_account without the call of update().
update_account_NoUpdate(d, s, account_id, ctype, data) ==
    IF ~ check_content_type(ctype)
    THEN {Outcome(d, s, abort(HTTP_415_UNSUPPORTED_MEDIA_TYPE), <<>>)}
    ELSE IF find(d, s, account_id) = {}
    THEN {Outcome(d, s, abort(HTTP_404_NOT_FOUND), <<"find">>)}
    ELSE UNION {
           {Outcome(d, IF r.account = account THEN s ELSE Dirty(s, r.account),
                    IF r.ok
                    THEN Response(HTTP_200_OK, "account", <<serialize(r.account)>>, NoId)
                    ELSE abort(HTTP_400_BAD_REQUEST),
                    <<"find", "get_json", "deserialize">>) :
                r \in deserialize(account, data)} :
           account \in find(d, s, account_id)}

update_account(d, s, account_id, ctype, data) ==
    IF ~ check_content_type(ctype)
    THEN {Outcome(d, s, abort(HTTP_415_UNSUPPORTED_MEDIA_TYPE), <<>>)}
    ELSE IF find(d, s, account_id) = {}
    THEN {Outcome(d, s, abort(HTTP_404_NOT_FOUND), <<"find">>)}
    ELSE UNION {
           {IF ~ r.ok
            THEN Outcome(d, IF r.account = account THEN s ELSE Dirty(s, r.account),
                         abort(HTTP_400_BAD_REQUEST),
                         <<"find", "get_json", "deserialize">>)
            ELSE Outcome(update(d, Dirty(s, r.account)), {},
                         Response(HTTP_200_OK, "account", <<serialize(r.account)>>, NoId),
                         <<"find", "get_json", "deserialize", "update">>) :
                r \in deserialize(account, data)} :
           account \in find(d, s, account_id)}

\* delete_account answering 404 for an id the store does not hold.
delete_account_NotFound(d, s, account_id) ==
    IF find(d, s, account_id) = {}
    THEN {Outcome(d, s, abort(HTTP_404_NOT_FOUND), <<"find">>)}
    ELSE {Outcome(delete(d, s, account), {},
                  Response(HTTP_204_NO_CONTENT, "empty", <<>>, NoId),
                  <<"find", "delete">>) :
              account \in find(d, s, account_id)}

delete_account(d, s, account_id) ==
    IF find(d, s, account_id) = {}
    THEN {Outcome(d, s, Response(HTTP_204_NO_CONTENT, "empty", <<>>, NoId), <<"find">>)}
    ELSE {Outcome(delete(d, s, account), {},
                  Response(HTTP_204_NO_CONTENT, "empty", <<>>, NoId),
                  <<"find", "delete">>) :
              account \in find(d, s, account_id)}

\* ------------------------------------------------------------------- inputs

Names == {"a", "b"}

ContentTypes == {"application/json", "text/html", "application/json; charset=utf-8"}

\* A body with name nm and email e, with or without a phone number and an id
\* of the client's own.
Body(i, nm, e, p) == [id |-> i, name |-> nm, email |-> e, phone_number |-> p]

\* Request bodies: complete ones, one carrying an id, and ones whose name or
\* email is missing or whose name is a number.
Bodies ==
    {Body(JAbsent, JStr(v), JStr("e"), p) : v \in Names, p \in {JAbsent, JStr("p")}}
    \cup {Body(JNum(1), JStr("b"), JStr("e"), JAbsent),
          Body(JAbsent, JAbsent, JStr("e"), JStr("p")),
          Body(JAbsent, JStr("b"), JAbsent, JAbsent),
          Body(JAbsent, JNum(7), JStr("e"), JAbsent)}

NoBody == [id |-> JAbsent, name |-> JAbsent, email |-> JAbsent, phone_number |-> JAbsent]

\* The interleaved clients' inputs.
ConcContentTypes == {"application/json", "text/html"}

ConcBodies ==
    {Body(JAbsent, JStr("b"), JStr("e"), JAbsent),
     Body(JAbsent, JStr("a"), JStr("e"), JStr("p")),
     Body(JAbsent, JStr("b"), JAbsent, JAbsent)}

\* The tables the interleaved clients start from.
ConcStores ==
    {{},
     {[id |-> 1, name |-> "a", email |-> "e", phone_number |-> NoneVal]},
     {[id |-> 1, name |-> "a", email |-> "e", phone_number |-> NoneVal],
      [id |-> 2, name |-> "b", email |-> "e", phone_number |-> "p"]}}

\* What a write of a row that is no longer there does: the store raises an
\* error, or the statement matches no row and passes.
StaleWriteOutcomes == {"error", "lost"}

Request(op, id, ctype, data) == [op |-> op, id |-> id, ctype |-> ctype, body |-> data]

\* -------------------------------------------------------------------- state

VARIABLES
    db,        \* the table of accounts
    session,   \* the instances changed in memory and not written
    req,       \* the request handled last
    resp,      \* its response
    calls,     \* the calls its handler made, in order
    prev,      \* the table before that request
    nCreated,  \* requests answered 201 so far
    nDeleted,  \* deletions that removed a row so far
    fresh,     \* <<id, body>> of each creation not yet updated or deleted
    cpc,       \* per client: where its handler stands
    creq,      \* per client: its request
    cacc,      \* per client: the instance its handler found
    cresp,     \* per client: its response
    db0        \* the table before the clients' requests

seqVars == <<session, req, resp, calls, prev, nCreated, nDeleted, fresh>>

concVars == <<cpc, creq, cacc, cresp, db0>>

vars == <<db, session, req, resp, calls, prev, nCreated, nDeleted, fresh,
          cpc, creq, cacc, cresp, db0>>

Clients == {"c1", "c2"}

Init ==
    /\ db = {}
    /\ session = {}
    /\ req = Request("none", NoId, "", NoBody)
    /\ resp = NoResponse
    /\ calls = <<>>
    /\ prev = {}
    /\ nCreated = 0
    /\ nDeleted = 0
    /\ fresh = {}
    /\ cpc = [c \in Clients |-> "idle"]
    /\ creq = [c \in Clients |-> Request("none", NoId, "", NoBody)]
    /\ cacc = [c \in Clients |-> {}]
    /\ cresp = [c \in Clients |-> NoResponse]
    /\ db0 = {}

\* One request handled to completion: the handler's outcome, the end of the
\* request-scoped session and the response policies.
Serve(request, o) ==
    /\ req' = request
    /\ prev' = db
    /\ db' = o.db
    /\ session' = teardown(o.session)
    /\ resp' = after_request(o.resp)
    /\ calls' = o.calls
    /\ UNCHANGED concVars

Health ==
    /\ \E o \in health(db, session) : Serve(Request("health", NoId, "", NoBody), o)
    /\ UNCHANGED <<nCreated, nDeleted, fresh>>

Index ==
    /\ \E o \in index(db, session) : Serve(Request("index", NoId, "", NoBody), o)
    /\ UNCHANGED <<nCreated, nDeleted, fresh>>

Create ==
    /\ nCreated < MaxCreates
    /\ \E ctype \in ContentTypes, data \in Bodies :
         \E o \in create_account(db, session, ctype, data) :
            /\ Serve(Request("create", NoId, ctype, data), o)
            /\ nCreated' = IF o.resp.status = HTTP_201_CREATED THEN nCreated + 1 ELSE nCreated
            /\ fresh' = IF o.resp.status = HTTP_201_CREATED
                        THEN fresh \cup {<<o.resp.location, data>>}
                        ELSE fresh
    /\ UNCHANGED nDeleted

List ==
    /\ \E o \in list_accounts(db, session) : Serve(Request("list", NoId, "", NoBody), o)
    /\ UNCHANGED <<nCreated, nDeleted, fresh>>

Read ==
    /\ \E account_id \in Ids :
         \E o \in get_account(db, session, account_id) :
            Serve(Request("read", account_id, "", NoBody), o)
    /\ UNCHANGED <<nCreated, nDeleted, fresh>>

Update ==
    /\ \E account_id \in Ids, ctype \in ContentTypes, data \in Bodies :
         \E o \in update_account(db, session, account_id, ctype, data) :
            /\ Serve(Request("update", account_id, ctype, data), o)
            /\ fresh' = IF o.resp.status = HTTP_200_OK
                        THEN {f \in fresh : f[1] # account_id}
                        ELSE fresh
    /\ UNCHANGED <<nCreated, nDeleted>>

Delete ==
    /\ \E account_id \in Ids :
         \E o \in delete_account(db, session, account_id) :
            /\ Serve(Request("delete", account_id, "", NoBody), o)
            /\ nDeleted' = IF \E r \in db : r.id = account_id THEN nDeleted + 1 ELSE nDeleted
            /\ fresh' = {f \in fresh : f[1] # account_id}
    /\ UNCHANGED nCreated

Next == Health \/ Index \/ Create \/ List \/ Read \/ Update \/ Delete

Spec == Init /\ [][Next]_vars

\* ------------------------------------------------- interleaved handlers

\* Two clients send one request each.  A handler runs up to its next store
\* access in one step, so the existence check of update_account and of
\* delete_account and the write that follows it are separate steps.  Each
\* request has a session of its own.

\* The request of client c handled in one step: a handler with one store
\* access, `outcomes` being what it may do.
OneStep(c, request, outcomes) ==
    /\ cpc[c] = "idle"
    /\ \E o \in outcomes :
         /\ db' = o.db
         /\ cresp' = [cresp EXCEPT ![c] = after_request(o.resp)]
    /\ creq' = [creq EXCEPT ![c] = request]
    /\ cpc' = [cpc EXCEPT ![c] = "done"]
    /\ UNCHANGED <<cacc, db0>>
    /\ UNCHANGED seqVars

Finish(c, r) ==
    /\ cresp' = [cresp EXCEPT ![c] = after_request(r)]
    /\ cpc' = [cpc EXCEPT ![c] = "done"]

ConcCreate(c) ==
    \E data \in ConcBodies :
        OneStep(c, Request("create", NoId, "application/json", data),
                create_account(db, {}, "application/json", data))

ConcList(c) == OneStep(c, Request("list", NoId, "", NoBody), list_accounts(db, {}))

ConcRead(c) ==
    \E account_id \in Ids :
        OneStep(c, Request("read", account_id, "", NoBody), get_account(db, {}, account_id))

\* update_account up to Account.find and the abort that may follow it.
UpdateFind(c) ==
    /\ cpc[c] = "idle"
    /\ \E account_id \in Ids, ctype \in ConcContentTypes, data \in ConcBodies :
         /\ creq' = [creq EXCEPT ![c] = Request("update", account_id, ctype, data)]
         /\ IF ~ check_content_type(ctype)
            THEN Finish(c, abort(HTTP_415_UNSUPPORTED_MEDIA_TYPE)) /\ UNCHANGED cacc
            ELSE IF find(db, {}, account_id) = {}
            THEN Finish(c, abort(HTTP_404_NOT_FOUND)) /\ UNCHANGED cacc
            ELSE /\ cacc' = [cacc EXCEPT ![c] = find(db, {}, account_id)]
                 /\ cpc' = [cpc EXCEPT ![c] = "found"]
                 /\ UNCHANGED cresp
    /\ UNCHANGED <<db, db0>>
    /\ UNCHANGED seqVars

\* update_account from deserialize on: the instance found is changed in memory
\* and update() writes it.  A write of a row that is gone meanwhile ends as
\* the store decides.
UpdateWrite(c) ==
    /\ cpc[c] = "found"
    /\ creq[c].op = "update"
    /\ \E account \in cacc[c] :
         \E r \in deserialize(account, creq[c].body) :
            IF ~ r.ok
            THEN Finish(c, abort(HTTP_400_BAD_REQUEST)) /\ UNCHANGED db
            ELSE IF r.account = account \/ \E x \in db : x.id = account.id
            THEN /\ db' = update(db, Dirty({}, r.account))
                 /\ Finish(c, Response(HTTP_200_OK, "account", <<serialize(r.account)>>, NoId))
            ELSE \E outcome \in StaleWriteOutcomes :
                 /\ UNCHANGED db
                 /\ Finish(c, IF outcome = "error"
                              THEN abort(HTTP_500_INTERNAL_SERVER_ERROR)
                              ELSE Response(HTTP_200_OK, "account",
                                            <<serialize(r.account)>>, NoId))
    /\ UNCHANGED <<creq, cacc, db0>>
    /\ UNCHANGED seqVars

\* delete_account up to Account.find; with no account it answers at once.
DeleteFind(c) ==
    /\ cpc[c] = "idle"
    /\ \E account_id \in Ids :
         /\ creq' = [creq EXCEPT ![c] = Request("delete", account_id, "", NoBody)]
         /\ IF find(db, {}, account_id) = {}
            THEN Finish(c, Response(HTTP_204_NO_CONTENT, "empty", <<>>, NoId))
                 /\ UNCHANGED cacc
            ELSE /\ cacc' = [cacc EXCEPT ![c] = find(db, {}, account_id)]
                 /\ cpc' = [cpc EXCEPT ![c] = "found"]
                 /\ UNCHANGED cresp
    /\ UNCHANGED <<db, db0>>
    /\ UNCHANGED seqVars

\* delete_account from account.delete() on.
DeleteWrite(c) ==
    /\ cpc[c] = "found"
    /\ creq[c].op = "delete"
    /\ \E account \in cacc[c] :
         IF \E x \in db : x.id = account.id
         THEN /\ db' = delete(db, {}, account)
              /\ Finish(c, Response(HTTP_204_NO_CONTENT, "empty", <<>>, NoId))
         ELSE \E outcome \in StaleWriteOutcomes :
              /\ UNCHANGED db
              /\ Finish(c, IF outcome = "error"
                           THEN abort(HTTP_500_INTERNAL_SERVER_ERROR)
                           ELSE Response(HTTP_204_NO_CONTENT, "empty", <<>>, NoId))
    /\ UNCHANGED <<creq, cacc, db0>>
    /\ UNCHANGED seqVars

ConcInit ==
    /\ db \in ConcStores
    /\ db0 = db
    /\ session = {}
    /\ req = Request("none", NoId, "", NoBody)
    /\ resp = NoResponse
    /\ calls = <<>>
    /\ prev = {}
    /\ nCreated = 0
    /\ nDeleted = 0
    /\ fresh = {}
    /\ cpc = [c \in Clients |-> "idle"]
    /\ creq = [c \in Clients |-> Request("none", NoId, "", NoBody)]
    /\ cacc = [c \in Clients |-> {}]
    /\ cresp = [c \in Clients |-> NoResponse]

ConcNext ==
    \E c \in Clients :
        \/ ConcCreate(c)
        \/ ConcList(c)
        \/ ConcRead(c)
        \/ UpdateFind(c)
        \/ UpdateWrite(c)
        \/ DeleteFind(c)
        \/ DeleteWrite(c)

SpecConc == ConcInit /\ [][ConcNext]_vars

\* The outcomes of request q handled to completion on table d.
Handled(d, q) ==
    CASE q.op = "create" -> create_account(d, {}, q.ctype, q.body)
      [] q.op = "list" -> list_accounts(d, {})
      [] q.op = "read" -> get_account(d, {}, q.id)
      [] q.op = "update" -> update_account(d, {}, q.id, q.ctype, q.body)
      [] q.op = "delete" -> delete_account(d, {}, q.id)
      [] OTHER -> {}

\* The table and the responses are those of the two requests handled one
\* after the other, `first` first.
SequentialOrder(first, second) ==
    \E o1 \in Handled(db0, creq[first]) :
       \E o2 \in Handled(o1.db, creq[second]) :
          /\ after_request(o1.resp) = cresp[first]
          /\ after_request(o2.resp) = cresp[second]
          /\ o2.db = db

\* ------------------------------------------------------------------ helpers

RowIds(d) == {r.id : r \in d}

\* The response a client receives for a handler's outcome.
Sent(o) == after_request(o.resp)

\* Every field the body carries, the id apart, has the body's value in `item`.
CarriesBody(item, data) ==
    \A f \in FieldNames \ {"id"} : Present(data, f) => item[f] = data[f]

IsAccountOf(r, status, id) ==
    /\ r.status = status
    /\ r.kind = "account"
    /\ Len(r.items) = 1
    /\ r.items[1].id = JNum(id)

\* ------------------------------------------------------------------- claims

\* C1: after a Create answered 201, and as long as the returned id is neither
\* updated nor deleted, a Read of that id answers 200 with a record whose id is
\* the returned id and whose fields have the values of the payload.
C1_CreateThenRead ==
    /\ \A f \in fresh :
         \A o \in get_account(db, session, f[1]) :
            /\ IsAccountOf(Sent(o), HTTP_200_OK, f[1])
            /\ CarriesBody(Sent(o).items[1], f[2])
    /\ \A f \in fresh :
         (req.op = "read" /\ req.id = f[1]) =>
            /\ IsAccountOf(resp, HTTP_200_OK, f[1])
            /\ CarriesBody(resp.items[1], f[2])

C1_Witness ==
    /\ req.op = "read"
    /\ resp.status = HTTP_200_OK
    /\ \E f \in fresh : f[1] = req.id /\ Present(f[2], "phone_number")
    /\ Cardinality(db) = 2

\* C2: List answers 200 with as many records as there were successful Creates
\* minus Deletes that removed a record, whatever requests came before; with no
\* record it answers the empty sequence.
C2_ListLength ==
    /\ \A o \in list_accounts(db, session) :
         /\ Sent(o).status = HTTP_200_OK
         /\ Len(Sent(o).items) = nCreated - nDeleted
         /\ (db = {} => Sent(o).items = <<>>)
    /\ req.op = "list" =>
         /\ resp.status = HTTP_200_OK
         /\ resp.kind = "list"
         /\ Len(resp.items) = nCreated - nDeleted
         /\ (db = {} => resp.items = <<>>)
         /\ db = prev

C2_Witness ==
    /\ req.op = "list"
    /\ nCreated = 2
    /\ nDeleted = 1
    /\ Len(resp.items) = 1

\* C3: Delete answers 204 with an empty body whether or not the record exists;
\* the record of that id is gone and every other record is as before; a second
\* Delete of the id gives the same response and the same store, and a Read of
\* the id answers 404.
C3_DeleteIdempotent ==
    req.op = "delete" =>
        /\ resp.status = HTTP_204_NO_CONTENT
        /\ resp.kind = "empty"
        /\ resp.items = <<>>
        /\ db = {r \in prev : r.id # req.id}
        /\ \A o \in delete_account(db, session, req.id) :
              Sent(o) = resp /\ o.db = db
        /\ \A o \in get_account(db, session, req.id) :
              Sent(o).status = HTTP_404_NOT_FOUND

C3_Witness ==
    /\ req.op = "delete"
    /\ req.id \in RowIds(prev)
    /\ db # {}

\* C4: for an id the store does not hold, Read answers 404, and Update with a
\* JSON content type answers 404 whatever the body; the store is as before.
C4_MissingIdNotFound ==
    /\ (req.op = "read" /\ req.id \notin RowIds(prev)) =>
          resp.status = HTTP_404_NOT_FOUND /\ db = prev
    /\ (req.op = "update" /\ req.ctype = "application/json"
                          /\ req.id \notin RowIds(prev)) =>
          resp.status = HTTP_404_NOT_FOUND /\ db = prev
    /\ \A i \in Ids \ RowIds(db) :
          /\ \A o \in get_account(db, session, i) :
                Sent(o).status = HTTP_404_NOT_FOUND /\ o.db = db
          /\ \A data \in Bodies :
                \A o \in update_account(db, session, i, "application/json", data) :
                   Sent(o).status = HTTP_404_NOT_FOUND /\ o.db = db

C4_Witness ==
    /\ req.op = "update"
    /\ req.ctype = "application/json"
    /\ req.id \notin RowIds(prev)
    /\ LacksRequired(req.body)
    /\ prev # {}
    /\ resp.status = HTTP_404_NOT_FOUND

\* C5: Create, and Update of an existing id, with a JSON body that lacks a
\* required field answer 400 and leave the store as it was: no record is
\* added, the record keeps its values, and nothing of the request is left
\* for a later request to read or to write.
C5_BadRequestNoWrite ==
    (/\ req.op \in {"create", "update"}
     /\ req.ctype = "application/json"
     /\ LacksRequired(req.body)
     /\ (req.op = "update" => req.id \in RowIds(prev))) =>
        /\ resp.status = HTTP_400_BAD_REQUEST
        /\ db = prev
        /\ all(db, session) = prev
        /\ commit(db, session) = prev

C5_Witness ==
    /\ req.op = "update"
    /\ resp.status = HTTP_400_BAD_REQUEST
    /\ req.body["name"] = JStr("b")
    /\ ~ Present(req.body, "email")
    /\ \E r \in prev : r.id = req.id /\ r.name = "a"

\* C6: Create and Update whose Content-Type is not exactly application/json
\* answer 415 whatever the body and whether or not the id exists, before the
\* body is parsed and before the store is read or written.
C6_UnsupportedMediaType ==
    (req.op \in {"create", "update"} /\ req.ctype # "application/json") =>
        /\ resp.status = HTTP_415_UNSUPPORTED_MEDIA_TYPE
        /\ calls = <<>>
        /\ db = prev

C6_Witness ==
    /\ req.op = "update"
    /\ req.ctype = "application/json; charset=utf-8"
    /\ req.id \in RowIds(prev)
    /\ ~ LacksRequired(req.body)
    /\ resp.status = HTTP_415_UNSUPPORTED_MEDIA_TYPE

\* C7: an Update answered 200 returns the record under the id of the request
\* with the body's field values, a Read of the id returns the same record, no
\* record is added or removed and every other record is as before.
C7_UpdateReplaces ==
    (req.op = "update" /\ resp.status = HTTP_200_OK) =>
        /\ IsAccountOf(resp, HTTP_200_OK, req.id)
        /\ CarriesBody(resp.items[1], req.body)
        /\ \A o \in get_account(db, session, req.id) :
              /\ Sent(o).status = HTTP_200_OK
              /\ Sent(o).items = resp.items
        /\ RowIds(db) = RowIds(prev)
        /\ Cardinality(db) = Cardinality(prev)
        /\ {r \in db : r.id # req.id} = {r \in prev : r.id # req.id}

C7_Witness ==
    /\ req.op = "update"
    /\ resp.status = HTTP_200_OK
    /\ req.id = 2
    /\ req.body["id"] = JNum(1)
    /\ Cardinality(db) = 2
    /\ \E r \in prev : r.id = 2 /\ r.name = "a"

\* C8: no two rows share an id; a Create answered 201 adds exactly one row,
\* under an id no row had, leaves the other rows as they were, and returns the
\* row with a Location naming its id, where a Read returns the created record.
C8_UniqueIds ==
    /\ \A r1, r2 \in db : r1.id = r2.id => r1 = r2
    /\ (req.op = "create" /\ resp.status = HTTP_201_CREATED) =>
          /\ resp.location \in Ids \ RowIds(prev)
          /\ IsAccountOf(resp, HTTP_201_CREATED, resp.location)
          /\ prev \subseteq db
          /\ Cardinality(db) = Cardinality(prev) + 1
          /\ RowIds(db) = RowIds(prev) \cup {resp.location}
          /\ \A o \in get_account(db, session, resp.location) :
                /\ Sent(o).status = HTTP_200_OK
                /\ Sent(o).items = resp.items

C8_Witness ==
    /\ req.op = "create"
    /\ resp.status = HTTP_201_CREATED
    /\ prev # {}
    /\ resp.location = 1

\* C9: every response, of every route, success or error, carries the fixed
\* security headers and the CORS header.
C9_SecurityHeaders ==
    req.op # "none" => (SecurityHeaders \cup CorsHeaders) \subseteq resp.headers

C9_Witness ==
    /\ req.op = "update"
    /\ resp.status = HTTP_404_NOT_FOUND
    /\ <<"Access-Control-Allow-Origin", "*">> \in resp.headers

\* C10: when the requests of several clients interleave, each handler's store
\* accesses take effect as one indivisible step: once all requests are
\* answered, the table and the responses are those of some sequential order of
\* the requests.
C10_AtomicRequests ==
    (\A c \in Clients : cpc[c] = "done") =>
        \E first \in Clients : \E second \in Clients \ {first} :
            SequentialOrder(first, second)

====
